---------------------------- MODULE Spec2Model ----------------------------
(***************************************************************************)
(* AXIS VFS (milochristiansen/axis2): the mount table of a FileSystem, the *)
(* resolution engine (GetDSsAt / GetDSAt) and the facade operations built  *)
(* on it, together with the path validator, the error wrapper and the two  *)
(* data-source backends of the repository (OS files, zip archives).        *)
(*                                                                         *)
(* Strings are sequences of one-character strings; a path segment is such  *)
(* a sequence, a segment sequence is a sequence of them.                   *)
(***************************************************************************)
EXTENDS Integers, Sequences, FiniteSets, TLC

VARIABLES
    heap,   \* the allocated *source values: heap[id] = [mp, ds]
    r,      \* FileSystem.r: the read half, a sequence of *source (heap ids)
    w,      \* FileSystem.w: the write half, a sequence of *source (heap ids)
    call    \* the last API call: its name, arguments, results and backend calls

vars == <<heap, r, w, call>>

(***************************************************************************)
(* Bounds of the model.                                                    *)
(***************************************************************************)
\* The most bindings the read half holds at once.
MaxMounts == 2

\* The longest string the client of the path functions tries.
MaxPathLen == 4

\* The most bindings of the tables mountSubset and isMP are tried on.
MaxBindings == 3

(***************************************************************************)
(* Strings.                                                                *)
(***************************************************************************)
Str0 == <<>>
SLASH == "/"

\* strings.ContainsAny(s, chars)
ContainsAny(s, chars) ==
    \E i \in 1..Len(s) : s[i] \in chars

\* strings.LastIndex(s, "/"), 1-based; 0 when there is none (Go: -1)
LastIndex(s) ==
    IF \E i \in 1..Len(s) : s[i] = SLASH
    THEN CHOOSE i \in 1..Len(s) : s[i] = SLASH /\ \A j \in (i+1)..Len(s) : s[j] # SLASH
    ELSE 0

\* strings.Split(s, "/") for a non-empty separator: every piece, empty ones included
RECURSIVE SplitFrom(_, _, _)
SplitFrom(s, i, cur) ==
    IF i > Len(s) THEN <<cur>>
    ELSE IF s[i] = SLASH THEN <<cur>> \o SplitFrom(s, i + 1, Str0)
    ELSE SplitFrom(s, i + 1, Append(cur, s[i]))

Split(s) ==
    SplitFrom(s, 1, Str0)

\* the characters validatePath rejects anywhere in a path
ReservedChars == {"<", ">", "?", "*", "|", ":", "\"", "\\"}

DOT == <<".">>
DOTDOT == <<".", ".">>

\* validatePath's result: nil (ok = FALSE) or a slice of names
NilDirs == [ok |-> FALSE, dirs |-> <<>>]
Dirs(d) == [ok |-> TRUE, dirs |-> d]

\* a variant of the loop that moves on after removing a name, and so steps
\* over the name that slid into the freed slot
RECURSIVE RemoveEmptySkipping(_, _)
RemoveEmptySkipping(dirs, i) ==
    IF i > Len(dirs) THEN dirs
    ELSE IF dirs[i] # Str0 THEN RemoveEmptySkipping(dirs, i + 1)
    ELSE RemoveEmptySkipping(SubSeq(dirs, 1, i - 1) \o SubSeq(dirs, i + 1, Len(dirs)), i + 1)

\* the "Remove empty dir names" loop of validatePath
RECURSIVE RemoveEmpty(_, _)
RemoveEmpty(dirs, i) ==
    IF i > Len(dirs) THEN dirs
    ELSE IF dirs[i] # Str0 THEN RemoveEmpty(dirs, i + 1)
    ELSE RemoveEmpty(SubSeq(dirs, 1, i - 1) \o SubSeq(dirs, i + 1, Len(dirs)), i)

\* a variant of validatePath that tests the names for "." and ".." after
\* the empty ones are gone and looks at the first name only
validatePathFirstNameOnly(path) ==
    IF path = Str0 THEN Dirs(<<>>)
    ELSE IF ContainsAny(path, ReservedChars) THEN NilDirs
    ELSE LET dirs == RemoveEmpty(Split(path), 1) IN
         IF dirs # <<>> /\ (dirs[1] = DOTDOT \/ dirs[1] = DOT) THEN NilDirs
         ELSE Dirs(dirs)

\* a variant of validatePath without the loop that removes the empty names
validatePathKeepingEmpty(path) ==
    IF path = Str0 THEN Dirs(<<>>)
    ELSE IF ContainsAny(path, ReservedChars) THEN NilDirs
    ELSE LET dirs == Split(path) IN
         IF \E i \in 1..Len(dirs) : dirs[i] = DOTDOT \/ dirs[i] = DOT THEN NilDirs
         ELSE Dirs(dirs)

validatePath(path) ==
    IF path = Str0 THEN Dirs(<<>>)
    ELSE IF ContainsAny(path, ReservedChars) THEN NilDirs
    ELSE LET dirs == Split(path) IN
         IF \E i \in 1..Len(dirs) : dirs[i] = DOTDOT \/ dirs[i] = DOT THEN NilDirs
         ELSE Dirs(RemoveEmpty(dirs, 1))

\* trimLastPath: <<everything before the last slash, everything after it>>
trimLastPath(path) ==
    LET i == LastIndex(path) IN
    IF i = 0 THEN <<Str0, path>>
    ELSE <<SubSeq(path, 1, i - 1), SubSeq(path, i + 1, Len(path))>>


(***************************************************************************)
(* Errors.  A backend error (Go's error interface) is nil, an *axis2.Error *)
(* made by NewError, an *os.PathError, or any other error value.  An API   *)
(* error is an *axis2.Error: its Typ, its Path and the wrapped Err.        *)
(***************************************************************************)
ErrNotFound == "ErrNotFound"
ErrReadOnly == "ErrReadOnly"
ErrBadAction == "ErrBadAction"
ErrBadPath == "ErrBadPath"
ErrRaw == "ErrRaw"

NoError == [kind |-> "nil", typ |-> "", inner |-> ""]
NewError(typ) == [kind |-> "axis", typ |-> typ, inner |-> ""]
PathError(e) == [kind |-> "patherr", typ |-> "", inner |-> e]
OtherError(e) == [kind |-> "other", typ |-> "", inner |-> e]

\* the nil error an API function returns, and &Error{Path: path, Typ: typ}
Nil == [typ |-> "nil", path |-> Str0, err |-> ""]
Error(path, typ) == [typ |-> typ, path |-> path, err |-> ""]

wrapError(err, path) ==
    IF err.kind = "nil" THEN Nil
    ELSE IF err.kind = "axis" THEN [typ |-> err.typ, path |-> path, err |-> ""]
    ELSE IF err.kind = "patherr" THEN
         IF err.inner = "os.ErrNotExist"
         THEN [typ |-> ErrNotFound, path |-> path, err |-> ""]
         ELSE [typ |-> ErrRaw, path |-> path, err |-> err.inner]
    ELSE [typ |-> ErrRaw, path |-> path, err |-> err.inner]

(***************************************************************************)
(* Data sources.  The values a client can mount are an OS directory tree   *)
(* (osDir / osFile), a zip archive tree (zdir / zfile), and a value that   *)
(* implements neither File nor Dir.  The trees answer from a fixed         *)
(* snapshot of the disk and of the archive:                                *)
(*     od  = osDir:  a/ (od_a: b -> of_ab)                                 *)
(*     zd  = zdir:   a -> zf_a,  b/ (zd_b: a -> zf_ba),  c -> zf_c         *)
(* of_b is an osFile of its own.  od_new and of_new are the osDir and      *)
(* osFile values osDir.Child returns for a name that is not on disk when   *)
(* it is given a creation hint; od_up is the directory od lies in.         *)
(***************************************************************************)
NilDS == "nil"

NA == <<"a">>
NB == <<"b">>
NC == <<"c">>

OsDirs == {"od", "od_a", "od_up", "od_new"}
OsFiles == {"of_b", "of_ab", "of_new"}
ZDirs == {"zd", "zd_b"}
ZFiles == {"zf_a", "zf_c", "zf_ba"}

\* Flags for Dir.Child
CreateNone == 0
CreateDir == 1
CreateFile == 2

\* ds.(Dir) and ds.(File): whether the value implements the interface
AsDir(ds) == ds \in OsDirs \cup ZDirs
AsFile(ds) == ds \in OsFiles \cup ZFiles

\* what os.Stat finds under an osDir: the child on disk, or NilDS.  The
\* empty name and "." are the directory itself, ".." is its parent (od_up
\* is the directory that holds od).
OsStat(dir, id) ==
    CASE dir = "od" /\ id = NA -> "od_a"
      [] dir = "od_a" /\ id = NB -> "of_ab"
      [] dir \in {"od", "od_a"} /\ id \in {Str0, DOT} -> dir
      [] dir = "od_a" /\ id = DOTDOT -> "od"
      [] dir = "od" /\ id = DOTDOT -> "od_up"
      [] OTHER -> NilDS

\* zdir.items[id]
ZItems(dir, id) ==
    CASE dir = "zd" /\ id = NA -> "zf_a"
      [] dir = "zd" /\ id = NB -> "zd_b"
      [] dir = "zd" /\ id = NC -> "zf_c"
      [] dir = "zd_b" /\ id = NA -> "zf_ba"
      [] OTHER -> NilDS

\* Dir.Child(id, create)
Child(dir, id, create) ==
    IF dir \in OsDirs THEN
        IF OsStat(dir, id) # NilDS THEN OsStat(dir, id)
        ELSE IF create = CreateDir THEN "od_new"
        ELSE IF create = CreateFile THEN "of_new"
        ELSE NilDS
    ELSE ZItems(dir, id)

\* the orders in which a zdir's map may be iterated; osDir lists by file name
ZipOrders == {"fwd", "rev"}

\* Dir.List()
ListOf(dir, zo) ==
    CASE dir = "od" -> <<NA>>
      [] dir = "od_a" -> <<NB>>
      [] dir = "zd" -> IF zo = "fwd" THEN <<NA, NB, NC>> ELSE <<NC, NB, NA>>
      [] dir = "zd_b" -> <<NA>>
      [] OTHER -> <<>>

\* Dir.Delete(id): os.Remove's error, or the archive's read-only rejection
DeleteOf(dir, id) ==
    IF dir \in ZDirs THEN NewError(ErrReadOnly)
    ELSE IF OsStat(dir, id) = NilDS THEN PathError("syscall.ENOENT")
    ELSE IF id = DOT THEN PathError("syscall.EINVAL")
    ELSE IF OsStat(dir, id) \in {"od", "od_a", "od_up"} THEN PathError("syscall.ENOTEMPTY")
    ELSE NoError

\* File.Read(): the error of os.Open or of zip's File.Open
ReadOf(file) ==
    IF file = "of_new" THEN PathError("syscall.ENOENT")
    ELSE IF file = "zf_ba" THEN OtherError("zip.ErrAlgorithm")
    ELSE NoError

\* File.Write() and File.Append(): the error of os.Create / os.OpenFile, or
\* the archive's read-only rejection
WriteOf(file) ==
    IF file \in ZFiles THEN NewError(ErrReadOnly) ELSE NoError

AppendOf(file) ==
    IF file \in ZFiles THEN NewError(ErrReadOnly) ELSE NoError

\* File.Size()
SizeOf(file) ==
    CASE file = "of_b" -> 1
      [] file = "of_ab" -> 2
      [] file = "zf_a" -> 3
      [] file = "zf_c" -> 4
      [] file = "zf_ba" -> 5
      [] OTHER -> -1

\* one backend call of an API call's log
BCall(ds, method, id, hint) == [ds |-> ds, method |-> method, id |-> id, hint |-> hint]

(***************************************************************************)
(* The mount table.  A source is an (mp, ds) pair on the heap; both halves *)
(* hold pointers to sources, and Mount puts the same pointer in both.      *)
(***************************************************************************)
Source(mp, ds) == [mp |-> mp, ds |-> ds]

\* the bindings a half holds, in order: what its pointers point to
View(sources, hp) == [i \in 1..Len(sources) |-> hp[sources[i]]]
RView == View(r, heap)
WView == View(w, heap)

\* a variant of the comparison that accepts every mount point dirs is a
\* prefix of
sameMPPrefix(dirs, mp) ==
    /\ Len(dirs) <= Len(mp)
    /\ \A k \in 1..Len(dirs) : dirs[k] = mp[k]

\* the comparison of a mount point with dirs made by unmount and remount
sameMP(dirs, mp) ==
    /\ Len(dirs) = Len(mp)
    /\ \A k \in 1..Len(dirs) : dirs[k] = mp[k]

\* copy(sources[i:], sources[i+1:]); sources = sources[:len(sources)-1]
RemoveAt(sources, i) ==
    SubSeq(sources, 1, i - 1) \o SubSeq(sources, i + 1, Len(sources))

\* a variant of the loop that steps over the element that slides into a
\* removed slot, and so leaves the second of two adjacent matches mounted
RECURSIVE unmountLoopSkipping(_, _, _, _)
unmountLoopSkipping(dirs, sources, i, hp) ==
    IF i > Len(sources) THEN sources
    ELSE IF sameMP(dirs, hp[sources[i]].mp)
         THEN unmountLoopSkipping(dirs, RemoveAt(sources, i), i + 1, hp)
         ELSE unmountLoopSkipping(dirs, sources, i + 1, hp)

\* the loop of unmount, from index i on
RECURSIVE unmountLoop(_, _, _, _)
unmountLoop(dirs, sources, i, hp) ==
    IF i > Len(sources) THEN sources
    ELSE IF sameMP(dirs, hp[sources[i]].mp)
         THEN unmountLoop(dirs, RemoveAt(sources, i), i, hp)
         ELSE unmountLoop(dirs, sources, i + 1, hp)

unmount(dirs, sources, hp) ==
    unmountLoop(dirs, sources, 1, hp)

\* the index of the first source remount matches, 0 when there is none
remountIndex(dirs, sources, hp) ==
    IF \E i \in 1..Len(sources) : sameMP(dirs, hp[sources[i]].mp)
    THEN CHOOSE i \in 1..Len(sources) :
            /\ sameMP(dirs, hp[sources[i]].mp)
            /\ \A j \in 1..(i - 1) : ~sameMP(dirs, hp[sources[j]].mp)
    ELSE 0

\* remount: the old data source (NilDS when nothing matches) and the heap
\* after sources[i].ds = ds
remount(dirs, ds, sources, hp) ==
    LET i == remountIndex(dirs, sources, hp) IN
    IF i = 0 THEN [rtn |-> NilDS, heap |-> hp]
    ELSE [rtn |-> hp[sources[i]].ds,
          heap |-> [hp EXCEPT ![sources[i]].ds = ds]]

\* Sources no half points to are garbage; the addresses of the others are
\* not observable, so they are numbered in order of first appearance.
RECURSIVE Distinct(_, _)
Distinct(s, seen) ==
    IF s = <<>> THEN <<>>
    ELSE IF Head(s) \in seen THEN Distinct(Tail(s), seen)
    ELSE <<Head(s)>> \o Distinct(Tail(s), seen \cup {Head(s)})

Live(rs, ws) == Distinct(rs \o ws, {})

NewAddr(live, id) == CHOOSE k \in 1..Len(live) : live[k] = id

Collect(rs, ws, hp) ==
    LET live == Live(rs, ws) IN
    [heap |-> [k \in 1..Len(live) |-> hp[live[k]]],
     r |-> [i \in 1..Len(rs) |-> NewAddr(live, rs[i])],
     w |-> [i \in 1..Len(ws) |-> NewAddr(live, ws[i])]]

\* the half an operation works on
Half(rd) == IF rd THEN r ELSE w

(***************************************************************************)
(* Mount point subsets.                                                    *)
(***************************************************************************)
\* the test both functions make of a source: its mount point is strictly
\* longer than dirs and begins with dirs
BelowMP(mp, dirs) ==
    /\ Len(mp) > Len(dirs)
    /\ \A i \in 1..Len(dirs) : mp[i] = dirs[i]

\* a variant of the loop that appends the name of every source it accepts
RECURSIVE mountSubsetLoopKeeping(_, _, _, _)
mountSubsetLoopKeeping(dirs, sources, i, rtn) ==
    IF i > Len(sources) THEN rtn
    ELSE LET mp == heap[sources[i]].mp IN
         IF ~BelowMP(mp, dirs) THEN mountSubsetLoopKeeping(dirs, sources, i + 1, rtn)
         ELSE mountSubsetLoopKeeping(dirs, sources, i + 1, Append(rtn, mp[Len(dirs) + 1]))

RECURSIVE mountSubsetLoop(_, _, _, _)
mountSubsetLoop(dirs, sources, i, rtn) ==
    IF i > Len(sources) THEN rtn
    ELSE LET mp == heap[sources[i]].mp IN
         IF ~BelowMP(mp, dirs) THEN mountSubsetLoop(dirs, sources, i + 1, rtn)
         ELSE IF \E k \in 1..Len(rtn) : rtn[k] = mp[Len(dirs) + 1]
              THEN mountSubsetLoop(dirs, sources, i + 1, rtn)
              ELSE mountSubsetLoop(dirs, sources, i + 1, Append(rtn, mp[Len(dirs) + 1]))

mountSubset(path, rd) ==
    LET v == validatePath(path) IN
    IF ~v.ok THEN <<>>
    ELSE mountSubsetLoop(v.dirs, Half(rd), 1, <<>>)

isMP(path, rd) ==
    LET v == validatePath(path) IN
    IF ~v.ok THEN FALSE
    ELSE \E i \in 1..Len(Half(rd)) : BelowMP(heap[Half(rd)[i]].mp, v.dirs)

(***************************************************************************)
(* Resolution.  A result carries the backend calls made on the way (log).  *)
(***************************************************************************)
\* "make sure that the path is a superset of the current source's mount point"
Covers(mp, dirs) ==
    \A i \in 1..Len(mp) : i <= Len(dirs) /\ mp[i] = dirs[i]

\* a variant that asks for a file at every name of the path
HintAlwaysFile(dirs, i, create) ==
    IF create THEN CreateFile
    ELSE CreateNone

\* the creation flag GetDSsAt passes to Child for dirs[i]
Hint(dirs, i, create) ==
    IF create /\ i = Len(dirs) THEN CreateFile
    ELSE IF create THEN CreateDir
    ELSE CreateNone

\* res with one more backend call in front of its log
Logged(b, res) == [res EXCEPT !.log = <<b>> \o @]

\* the walk from ds along dirs[i..]: the item reached (NilDS when the walk
\* meets a value that is no Dir or a missing child) and the Child calls made
RECURSIVE walk(_, _, _, _)
RECURSIVE walkChild(_, _, _, _)
walk(ds, dirs, i, create) ==
    IF i > Len(dirs) THEN [ds |-> ds, log |-> <<>>]
    ELSE IF ~AsDir(ds) THEN [ds |-> NilDS, log |-> <<>>]
    ELSE Logged(BCall(ds, "Child", dirs[i], Hint(dirs, i, create)),
                walkChild(Child(ds, dirs[i], Hint(dirs, i, create)), dirs, i, create))

\* ds = pdir.Child(dirs[i], c); if ds == nil { continue next }
walkChild(nx, dirs, i, create) ==
    IF nx = NilDS THEN [ds |-> NilDS, log |-> <<>>]
    ELSE walk(nx, dirs, i + 1, create)

\* a variant that appends what the walk ended with, a nil child included
FoundAlways(acc, got) ==
    [dss |-> Append(acc.dss, got.ds),
     log |-> acc.log \o got.log]

\* a variant that keeps only the first walk that got through
FoundFirstOnly(acc, got) ==
    [dss |-> IF got.ds = NilDS \/ acc.dss # <<>> THEN acc.dss ELSE <<got.ds>>,
     log |-> acc.log \o got.log]

\* dss = append(dss, ds), for a walk that got through
Found(acc, got) ==
    [dss |-> IF got.ds = NilDS THEN acc.dss ELSE Append(acc.dss, got.ds),
     log |-> acc.log \o got.log]

\* a variant of the loop that gives up at the first source whose walk fails
RECURSIVE resolveLoopStopping(_, _, _, _, _)
resolveLoopStopping(dirs, sources, k, create, acc) ==
    IF k > Len(sources) THEN acc
    ELSE IF ~Covers(heap[sources[k]].mp, dirs)
         THEN resolveLoopStopping(dirs, sources, k + 1, create, acc)
         ELSE IF walk(heap[sources[k]].ds, dirs, Len(heap[sources[k]].mp) + 1, create).ds = NilDS
         THEN Found(acc, walk(heap[sources[k]].ds, dirs,
                              Len(heap[sources[k]].mp) + 1, create))
         ELSE resolveLoopStopping(dirs, sources, k + 1, create,
                  Found(acc, walk(heap[sources[k]].ds, dirs,
                                  Len(heap[sources[k]].mp) + 1, create)))

\* the loop of GetDSsAt over the sources, from index k on
RECURSIVE resolveLoop(_, _, _, _, _)
resolveLoop(dirs, sources, k, create, acc) ==
    IF k > Len(sources) THEN acc
    ELSE IF ~Covers(heap[sources[k]].mp, dirs)
         THEN resolveLoop(dirs, sources, k + 1, create, acc)
         ELSE resolveLoop(dirs, sources, k + 1, create,
                  Found(acc, walk(heap[sources[k]].ds, dirs,
                                  Len(heap[sources[k]].mp) + 1, create)))

\* a variant of the end of GetDSsAt that asks the read half for mount points
resolvedAskingReadHalf(path, rd, res) ==
    IF res.dss # <<>> THEN [dss |-> res.dss, err |-> Nil, log |-> res.log]
    ELSE IF isMP(path, TRUE)
         THEN [dss |-> <<>>, err |-> Error(path, ErrBadAction), log |-> res.log]
         ELSE [dss |-> <<>>, err |-> Error(path, ErrNotFound), log |-> res.log]

\* a variant of the end of GetDSsAt that does not look at the mount points
resolvedWithoutIsMP(path, rd, res) ==
    IF res.dss # <<>> THEN [dss |-> res.dss, err |-> Nil, log |-> res.log]
    ELSE [dss |-> <<>>, err |-> Error(path, ErrNotFound), log |-> res.log]

\* the end of GetDSsAt: the items, or ErrBadAction / ErrNotFound
resolved(path, rd, res) ==
    IF res.dss # <<>> THEN [dss |-> res.dss, err |-> Nil, log |-> res.log]
    ELSE IF isMP(path, rd)
         THEN [dss |-> <<>>, err |-> Error(path, ErrBadAction), log |-> res.log]
         ELSE [dss |-> <<>>, err |-> Error(path, ErrNotFound), log |-> res.log]

GetDSsAt(path, create, rd) ==
    IF ~validatePath(path).ok
    THEN [dss |-> <<>>, err |-> Error(path, ErrBadPath), log |-> <<>>]
    ELSE resolved(path, rd,
             resolveLoop(validatePath(path).dirs, Half(rd), 1, create,
                         [dss |-> <<>>, log |-> <<>>]))

\* the end of GetDSAt: dss[0]
first(res) ==
    IF res.err # Nil THEN [rtn |-> NilDS, err |-> res.err, log |-> res.log]
    ELSE [rtn |-> res.dss[1], err |-> Nil, log |-> res.log]

GetDSAt(path, create, rd) ==
    first(GetDSsAt(path, create, rd))

(***************************************************************************)
(* The facade: each function's results and the backend calls it makes.     *)
(* A function F that first resolves its path is F(path) == FOn(res, path), *)
(* res being what GetDSAt or GetDSsAt returned.                            *)
(***************************************************************************)
ExistsOn(res, path) ==
    [ok |-> IF res.err # Nil THEN isMP(path, TRUE) ELSE TRUE, log |-> res.log]

Exists(path) ==
    ExistsOn(GetDSAt(path, FALSE, TRUE), path)

IsDirOn(res, path) ==
    [ok |-> IF res.err # Nil THEN isMP(path, TRUE) ELSE AsDir(res.rtn), log |-> res.log]

IsDir(path) ==
    IsDirOn(GetDSAt(path, FALSE, TRUE), path)

IsMP(path) ==
    [ok |-> isMP(path, TRUE), log |-> <<>>]

SizeOn(res) ==
    IF res.err # Nil THEN [size |-> -1, log |-> res.log]
    ELSE IF ~AsFile(res.rtn) THEN [size |-> -1, log |-> res.log]
    ELSE [size |-> SizeOf(res.rtn),
          log |-> Append(res.log, BCall(res.rtn, "Size", Str0, CreateNone))]

Size(path) ==
    SizeOn(GetDSAt(path, FALSE, TRUE))

\* a variant of the loop that deletes from the first Dir without asking it
\* for the child
RECURSIVE deleteLoopFirstDir(_, _, _, _)
deleteLoopFirstDir(dss, k, last, path) ==
    IF k > Len(dss) THEN [err |-> Error(path, ErrNotFound), log |-> <<>>]
    ELSE IF ~AsDir(dss[k]) THEN deleteLoopFirstDir(dss, k + 1, last, path)
    ELSE [err |-> wrapError(DeleteOf(dss[k], last), path),
          log |-> <<BCall(dss[k], "Child", last, CreateNone),
                    BCall(dss[k], "Delete", last, CreateNone)>>]

\* the loop of Delete over the candidate parents, from index k on
RECURSIVE deleteLoop(_, _, _, _)
deleteLoop(dss, k, last, path) ==
    IF k > Len(dss) THEN [err |-> Error(path, ErrNotFound), log |-> <<>>]
    ELSE IF ~AsDir(dss[k]) THEN deleteLoop(dss, k + 1, last, path)
    ELSE IF Child(dss[k], last, CreateNone) # NilDS
         THEN [err |-> wrapError(DeleteOf(dss[k], last), path),
               log |-> <<BCall(dss[k], "Child", last, CreateNone),
                         BCall(dss[k], "Delete", last, CreateNone)>>]
         ELSE Logged(BCall(dss[k], "Child", last, CreateNone),
                     deleteLoop(dss, k + 1, last, path))

\* res with the calls of log in front of its own
After(log, res) == [res EXCEPT !.log = log \o @]

DeleteOn(res, last, path) ==
    IF res.err # Nil THEN [err |-> res.err, log |-> res.log]
    ELSE After(res.log, deleteLoop(res.dss, 1, last, path))

Delete(path) ==
    DeleteOn(GetDSsAt(trimLastPath(path)[1], FALSE, FALSE), trimLastPath(path)[2], path)

\* a variant that appends every item, seen before or not
AddAll(rtn, items) ==
    rtn \o items

\* items appended to rtn when not yet in it ("have")
RECURSIVE AddNew(_, _)
AddNew(rtn, items) ==
    IF items = <<>> THEN rtn
    ELSE IF \E k \in 1..Len(rtn) : rtn[k] = Head(items) THEN AddNew(rtn, Tail(items))
    ELSE AddNew(Append(rtn, Head(items)), Tail(items))

\* the loop of List over the resolved data sources
RECURSIVE listLoop(_, _, _, _)
listLoop(dss, k, zo, rtn) ==
    IF k > Len(dss) THEN [names |-> rtn, log |-> <<>>]
    ELSE IF ~AsDir(dss[k]) THEN listLoop(dss, k + 1, zo, rtn)
    ELSE Logged(BCall(dss[k], "List", Str0, CreateNone),
                listLoop(dss, k + 1, zo, AddNew(rtn, ListOf(dss[k], zo))))

\* return append(rtn, fs.mountSubset(path, true)...)
WithSubset(l, path) == [l EXCEPT !.names = @ \o mountSubset(path, TRUE)]

ListOn(res, path, zo) ==
    IF res.err # Nil THEN [names |-> mountSubset(path, TRUE), log |-> res.log]
    ELSE After(res.log, WithSubset(listLoop(res.dss, 1, zo, <<>>), path))

List(path, zo) ==
    ListOn(GetDSsAt(path, FALSE, TRUE), path, zo)

\* the inner loop of ListDirs and ListFiles over one Dir's children: the
\* names seen so far (have), the names kept (rtn) and the Child calls made
RECURSIVE childLoop(_, _, _, _, _, _)
childLoop(d, children, have, rtn, wantDir, log) ==
    IF children = <<>> THEN [have |-> have, rtn |-> rtn, log |-> log]
    ELSE IF Head(children) \in have
         THEN childLoop(d, Tail(children), have, rtn, wantDir, log)
         ELSE childLoop(d, Tail(children), have \cup {Head(children)},
                  IF (IF wantDir THEN AsDir(Child(d, Head(children), CreateNone))
                                 ELSE AsFile(Child(d, Head(children), CreateNone)))
                  THEN Append(rtn, Head(children)) ELSE rtn,
                  wantDir,
                  Append(log, BCall(d, "Child", Head(children), CreateNone)))

RECURSIVE listDirsLoop(_, _, _, _)
RECURSIVE listDirsNext(_, _, _, _)
listDirsLoop(dss, k, zo, c) ==
    IF k > Len(dss) THEN [names |-> c.rtn, log |-> c.log]
    ELSE IF ~AsDir(dss[k]) THEN listDirsLoop(dss, k + 1, zo, c)
    ELSE listDirsNext(dss, k, zo,
             childLoop(dss[k], ListOf(dss[k], zo), c.have, c.rtn, TRUE,
                       Append(c.log, BCall(dss[k], "List", Str0, CreateNone))))

listDirsNext(dss, k, zo, c) ==
    listDirsLoop(dss, k + 1, zo, c)

ListDirsOn(res, path, zo) ==
    IF res.err # Nil THEN [names |-> mountSubset(path, TRUE), log |-> res.log]
    ELSE WithSubset(listDirsLoop(res.dss, 1, zo,
                                 [have |-> {}, rtn |-> <<>>, log |-> res.log]), path)

ListDirs(path, zo) ==
    ListDirsOn(GetDSsAt(path, FALSE, TRUE), path, zo)

RECURSIVE listFilesLoop(_, _, _, _)
listFilesLoop(dss, k, zo, c) ==
    IF k > Len(dss) THEN [names |-> c.rtn, log |-> c.log]
    ELSE IF ~AsDir(dss[k]) THEN [names |-> <<>>, log |-> c.log]
    ELSE listFilesLoop(dss, k + 1, zo,
             childLoop(dss[k], ListOf(dss[k], zo), c.have, c.rtn, FALSE,
                       Append(c.log, BCall(dss[k], "List", Str0, CreateNone))))

ListFilesOn(res, zo) ==
    IF res.err # Nil THEN [names |-> <<>>, log |-> res.log]
    ELSE listFilesLoop(res.dss, 1, zo, [have |-> {}, rtn |-> <<>>, log |-> res.log])

ListFiles(path, zo) ==
    ListFilesOn(GetDSsAt(path, FALSE, TRUE), zo)

\* the end of Read, Write and Append: f's open method was called and gave
\* err; the stream is named after its File (NilDS when none was opened)
Opened(res, method, err, path) ==
    [rtn |-> IF err = NoError THEN res.rtn ELSE NilDS,
     err |-> wrapError(err, path),
     log |-> Append(res.log, BCall(res.rtn, method, Str0, CreateNone))]

ReadOn(res, path) ==
    IF res.err # Nil THEN [rtn |-> NilDS, err |-> res.err, log |-> res.log]
    ELSE IF ~AsFile(res.rtn)
         THEN [rtn |-> NilDS, err |-> Error(path, ErrBadAction), log |-> res.log]
         ELSE Opened(res, "Read", ReadOf(res.rtn), path)

Read(path) ==
    ReadOn(GetDSAt(path, FALSE, TRUE), path)

WriteOn(res, path) ==
    IF res.err # Nil THEN [rtn |-> NilDS, err |-> res.err, log |-> res.log]
    ELSE IF ~AsFile(res.rtn)
         THEN [rtn |-> NilDS, err |-> Error(path, ErrBadAction), log |-> res.log]
         ELSE Opened(res, "Write", WriteOf(res.rtn), path)

\* a variant of Write that resolves in the read half
WriteInReadHalf(path) ==
    WriteOn(GetDSAt(path, TRUE, TRUE), path)

Write(path) ==
    WriteOn(GetDSAt(path, TRUE, FALSE), path)

AppendOn(res, path) ==
    IF res.err # Nil THEN [rtn |-> NilDS, err |-> res.err, log |-> res.log]
    ELSE IF ~AsFile(res.rtn)
         THEN [rtn |-> NilDS, err |-> Error(path, ErrBadAction), log |-> res.log]
         ELSE Opened(res, "Append", AppendOf(res.rtn), path)

AppendTo(path) ==
    AppendOn(GetDSAt(path, TRUE, FALSE), path)

\* a variant that closes the stream only after a transfer without error
TransferClosingOnSuccess(op, method, io, path) ==
    IF op.err # Nil THEN [err |-> op.err, log |-> op.log]
    ELSE IF io # NoError
         THEN [err |-> wrapError(io, path),
               log |-> Append(op.log, BCall(op.rtn, method, Str0, CreateNone))]
         ELSE [err |-> wrapError(io, path),
               log |-> op.log \o <<BCall(op.rtn, method, Str0, CreateNone),
                                   BCall(op.rtn, "stream.Close", Str0, CreateNone)>>]

\* the end of ReadAll and WriteAll: the transfer (method) met the error io
\* on the open stream, and the deferred Close ran
Transfer(op, method, io, path) ==
    IF op.err # Nil THEN [err |-> op.err, log |-> op.log]
    ELSE [err |-> wrapError(io, path),
          log |-> op.log \o <<BCall(op.rtn, method, Str0, CreateNone),
                              BCall(op.rtn, "stream.Close", Str0, CreateNone)>>]

ReadAll(path, io) ==
    Transfer(Read(path), "stream.Read", io, path)

WriteAll(path, io) ==
    Transfer(Write(path), "stream.Write", io, path)

(***************************************************************************)
(* The client: what it passes to the API.                                  *)
(***************************************************************************)
\* "", "a//b/", "a/b" and the invalid "<a"
MountPaths ==
    { Str0, <<"a", "/", "/", "b", "/">>, <<"a", "/", "b">>, <<"<", "a">> }

\* "", "a", "b", "a/a", "a/b", "/a//b/", "a/b/b/a" and the invalid "a/.."
Paths ==
    { Str0, <<"a">>, <<"b">>, <<"a", "/", "a">>, <<"a", "/", "b">>,
      <<"/", "a", "/", "/", "b", "/">>, <<"a", "/", "b", "/", "b", "/", "a">>,
      <<"a", "/", ".", ".">> }

\* an OS directory, an archive, an OS file, a value that is neither a File
\* nor a Dir, and the nil DataSource
MountDS == {"od", "zd", "of_b", "none", NilDS}

\* the errors a stream's Read or Write can meet
StreamErrors == {NoError, OtherError("io.ErrUnexpectedEOF")}

\* the record of an API call: arguments first, results after
NoCall ==
    [op |-> "", path |-> Str0, ds |-> NilDS, flag |-> FALSE, create |-> FALSE,
     err |-> Nil, rtn |-> NilDS, dss |-> <<>>, names |-> <<>>, ok |-> FALSE,
     size |-> -1, log |-> <<>>, from |-> NoError]

\* the call of op with its arguments
Args(op, path, ds, flag, create) ==
    [NoCall EXCEPT !.op = op, !.path = path, !.ds = ds, !.flag = flag,
                   !.create = create]

\* a call and what it returned
Returned(args, res) ==
    [f \in DOMAIN args |-> IF f \in DOMAIN res THEN res[f] ELSE args[f]]

\* The client is sequential: it makes a call when it holds no result of an
\* earlier one.
Idle == call = NoCall

\* a step that changes the mount table to t
Changes(t, c) ==
    /\ Idle
    /\ heap' = t.heap
    /\ r' = t.r
    /\ w' = t.w
    /\ call' = c

\* a step that leaves the mount table alone
Answers(c) ==
    /\ Idle
    /\ call' = c
    /\ UNCHANGED <<heap, r, w>>

(***************************************************************************)
(* The operations on the mount table.                                      *)
(***************************************************************************)
\* a variant of Mount's effect that ignores rw and mounts writable
mountedWritable(dirs, ds, rw) ==
    Collect(Append(r, Len(heap) + 1),
            Append(w, Len(heap) + 1),
            Append(heap, Source(dirs, ds)))

\* fs.r = append(fs.r, src); if rw { fs.w = append(fs.w, src) }
mounted(dirs, ds, rw) ==
    Collect(Append(r, Len(heap) + 1),
            IF rw THEN Append(w, Len(heap) + 1) ELSE w,
            Append(heap, Source(dirs, ds)))

\* a variant of Mount that does not ask whether ds is a File or a Dir
MountUnchecked(path, ds, rw) ==
    /\ Len(r) < MaxMounts
    /\ IF ~validatePath(path).ok
       THEN Answers(Returned(Args("Mount", path, ds, rw, FALSE),
                             [err |-> Error(path, ErrBadPath)]))
       ELSE Changes(mounted(validatePath(path).dirs, ds, rw),
                    Args("Mount", path, ds, rw, FALSE))

Mount(path, ds, rw) ==
    /\ Len(r) < MaxMounts
    /\ IF ~validatePath(path).ok
       THEN Answers(Returned(Args("Mount", path, ds, rw, FALSE),
                             [err |-> Error(path, ErrBadPath)]))
       ELSE IF ~AsFile(ds) /\ ~AsDir(ds)
       THEN Answers(Returned(Args("Mount", path, ds, rw, FALSE),
                             [err |-> Error(path, ErrBadAction)]))
       ELSE Changes(mounted(validatePath(path).dirs, ds, rw),
                    Args("Mount", path, ds, rw, FALSE))

\* a variant of Unmount's effect with the two halves exchanged
unmountedExchanged(dirs, rd) ==
    Collect(unmount(dirs, r, heap), IF rd THEN unmount(dirs, w, heap) ELSE w, heap)

\* fs.w = unmount(dirs, fs.w); if r { fs.r = unmount(dirs, fs.r) }
unmounted(dirs, rd) ==
    Collect(IF rd THEN unmount(dirs, r, heap) ELSE r, unmount(dirs, w, heap), heap)

Unmount(path, rd) ==
    IF ~validatePath(path).ok
    THEN Answers(Returned(Args("Unmount", path, NilDS, rd, FALSE),
                          [err |-> Error(path, ErrBadPath)]))
    ELSE Changes(unmounted(validatePath(path).dirs, rd),
                 Args("Unmount", path, NilDS, rd, FALSE))

\* rtn := remount(dirs, ds, fs.r); if rw { remount(dirs, ds, fs.w) }
swapW(dirs, ds, rw, inR) ==
    [rtn |-> inR.rtn,
     heap |-> IF rw THEN remount(dirs, ds, w, inR.heap).heap ELSE inR.heap,
     r |-> r,
     w |-> w]

swapped(dirs, ds, rw) ==
    swapW(dirs, ds, rw, remount(dirs, ds, r, heap))

SwapDone(path, ds, rw, t) ==
    Changes(t, Returned(Args("SwapMount", path, ds, rw, FALSE), [rtn |-> t.rtn]))

SwapMount(path, ds, rw) ==
    IF ~validatePath(path).ok \/ (~AsFile(ds) /\ ~AsDir(ds))
    THEN Answers(Args("SwapMount", path, ds, rw, FALSE))
    ELSE SwapDone(path, ds, rw, swapped(validatePath(path).dirs, ds, rw))

(***************************************************************************)
(* The operations that leave the mount table alone.                        *)
(***************************************************************************)
DoGetDSsAt(path, create, rd) ==
    Answers(Returned(Args("GetDSsAt", path, NilDS, rd, create), GetDSsAt(path, create, rd)))

DoGetDSAt(path, create, rd) ==
    Answers(Returned(Args("GetDSAt", path, NilDS, rd, create), GetDSAt(path, create, rd)))

DoExists(path) ==
    Answers(Returned(Args("Exists", path, NilDS, FALSE, FALSE), Exists(path)))

DoIsDir(path) ==
    Answers(Returned(Args("IsDir", path, NilDS, FALSE, FALSE), IsDir(path)))

DoIsMP(path) ==
    Answers(Returned(Args("IsMP", path, NilDS, FALSE, FALSE), IsMP(path)))

DoSize(path) ==
    Answers(Returned(Args("Size", path, NilDS, FALSE, FALSE), Size(path)))

DoDelete(path) ==
    Answers(Returned(Args("Delete", path, NilDS, FALSE, FALSE), Delete(path)))

DoList(path, zo) ==
    Answers(Returned(Args("List", path, NilDS, FALSE, FALSE), List(path, zo)))

DoListDirs(path, zo) ==
    Answers(Returned(Args("ListDirs", path, NilDS, FALSE, FALSE), ListDirs(path, zo)))

DoListFiles(path, zo) ==
    Answers(Returned(Args("ListFiles", path, NilDS, FALSE, FALSE), ListFiles(path, zo)))

DoRead(path) ==
    Answers(Returned(Args("Read", path, NilDS, FALSE, FALSE), Read(path)))

DoWrite(path) ==
    Answers(Returned(Args("Write", path, NilDS, FALSE, FALSE), Write(path)))

DoAppend(path) ==
    Answers(Returned(Args("Append", path, NilDS, FALSE, FALSE), AppendTo(path)))

DoReadAll(path, io) ==
    Answers(Returned(Args("ReadAll", path, NilDS, FALSE, FALSE), ReadAll(path, io)))

DoWriteAll(path, io) ==
    Answers(Returned(Args("WriteAll", path, NilDS, FALSE, FALSE), WriteAll(path, io)))

(***************************************************************************)
(* The specification: a client calls the API, one call after another, on   *)
(* the zero value of FileSystem.                                           *)
(***************************************************************************)
\* the client has taken the results of its last call
Return ==
    /\ ~Idle
    /\ call' = NoCall
    /\ UNCHANGED <<heap, r, w>>

Init ==
    /\ heap = <<>>
    /\ r = <<>>
    /\ w = <<>>
    /\ call = NoCall

Next ==
    \/ \E path \in MountPaths, ds \in MountDS, rw \in BOOLEAN : Mount(path, ds, rw)
    \/ \E path \in MountPaths, rd \in BOOLEAN : Unmount(path, rd)
    \/ \E path \in MountPaths, ds \in MountDS, rw \in BOOLEAN : SwapMount(path, ds, rw)
    \/ \E path \in Paths, create \in BOOLEAN, rd \in BOOLEAN : DoGetDSsAt(path, create, rd)
    \/ \E path \in Paths, create \in BOOLEAN, rd \in BOOLEAN : DoGetDSAt(path, create, rd)
    \/ \E path \in Paths : DoExists(path)
    \/ \E path \in Paths : DoIsDir(path)
    \/ \E path \in Paths : DoIsMP(path)
    \/ \E path \in Paths : DoSize(path)
    \/ \E path \in Paths : DoDelete(path)
    \/ \E path \in Paths, zo \in ZipOrders : DoList(path, zo)
    \/ \E path \in Paths, zo \in ZipOrders : DoListDirs(path, zo)
    \/ \E path \in Paths, zo \in ZipOrders : DoListFiles(path, zo)
    \/ \E path \in Paths : DoRead(path)
    \/ \E path \in Paths : DoWrite(path)
    \/ \E path \in Paths : DoAppend(path)
    \/ \E path \in Paths, io \in StreamErrors : DoReadAll(path, io)
    \/ \E path \in Paths, io \in StreamErrors : DoWriteAll(path, io)
    \/ Return

Spec == Init /\ [][Next]_vars

(***************************************************************************)
(* A second client, for the path functions alone: it hands validatePath    *)
(* every string of at most MaxPathLen characters over PathChars (a name    *)
(* character or two, the slash, the dot, a reserved character) and keeps   *)
(* what it returned.                                                       *)
(***************************************************************************)
PathChars == {"a", "b", "/", ".", "<"}

RECURSIVE StringsUpTo(_)
StringsUpTo(n) ==
    IF n = 0 THEN {Str0}
    ELSE StringsUpTo(n - 1) \cup
         {Append(s, c) : s \in StringsUpTo(n - 1), c \in PathChars}

PathStrings == StringsUpTo(MaxPathLen)

\* dirs := validatePath(path)
DoValidatePath(path) ==
    Answers([NoCall EXCEPT !.op = "validatePath", !.path = path,
                           !.ok = validatePath(path).ok,
                           !.names = validatePath(path).dirs])

PathNext ==
    \/ \E path \in PathStrings : DoValidatePath(path)
    \/ Return

PathSpec == Init /\ [][PathNext]_vars

(***************************************************************************)
(* wrapError on its own: the client of this specification hands it the     *)
(* errors a File or Dir implementation can return, with any path.  The os  *)
(* package reports a missing file as a *PathError holding syscall.ENOENT.  *)
(***************************************************************************)
BackendErrors ==
    {NoError}
    \cup {NewError(typ) : typ \in {ErrNotFound, ErrReadOnly, ErrBadAction, ErrBadPath, ErrRaw}}
    \cup {PathError(e) : e \in {"os.ErrNotExist", "syscall.ENOENT", "syscall.ENOTEMPTY"}}
    \cup {OtherError(e) : e \in {"zip.ErrAlgorithm", "io.ErrUnexpectedEOF"}}

\* return wrapError(err, path)
DoWrapError(err, path) ==
    Answers([NoCall EXCEPT !.op = "wrapError", !.path = path, !.from = err,
                           !.err = wrapError(err, path)])

ErrNext ==
    \/ \E err \in BackendErrors, path \in PathStrings : DoWrapError(err, path)
    \/ Return

ErrSpec == Init /\ [][ErrNext]_vars

(***************************************************************************)
(* mountSubset and isMP on their own: the table is any sequence of at most *)
(* MaxBindings bindings at mount points of up to two names (a client gets  *)
(* it with as many calls of Mount), the write half is the read half or the *)
(* read half less one binding.                                             *)
(***************************************************************************)
SubsetMPs == {<<>>, <<NA>>, <<NB>>, <<NA, NA>>, <<NA, NB>>, <<NB, NA>>}

RECURSIVE TablesUpTo(_)
TablesUpTo(n) ==
    IF n = 0 THEN {<<>>}
    ELSE TablesUpTo(n - 1) \cup
         {Append(t, mp) : t \in TablesUpTo(n - 1), mp \in SubsetMPs}

SubsetInit ==
    /\ call = NoCall
    /\ \E t \in TablesUpTo(MaxBindings) :
          /\ heap = [i \in 1..Len(t) |-> Source(t[i], "od")]
          /\ r = [i \in 1..Len(t) |-> i]
          /\ w \in {r} \cup {RemoveAt(r, i) : i \in 1..Len(t)}

\* rtn := fs.mountSubset(path, r)
CallMountSubset(path, rd) ==
    Answers([NoCall EXCEPT !.op = "mountSubset", !.path = path, !.flag = rd,
                           !.names = mountSubset(path, rd)])

\* ok := fs.isMP(path, r)
CallIsMP(path, rd) ==
    Answers([NoCall EXCEPT !.op = "isMP", !.path = path, !.flag = rd,
                           !.ok = isMP(path, rd)])

SubsetNext ==
    \/ \E path \in Paths, rd \in BOOLEAN : CallMountSubset(path, rd)
    \/ \E path \in Paths, rd \in BOOLEAN : CallIsMP(path, rd)
    \/ Return

SubsetSpec == SubsetInit /\ [][SubsetNext]_vars

(***************************************************************************)
(* Vocabulary of the properties.                                           *)
(***************************************************************************)
\* the canonical path string of a segment sequence: its names joined by "/"
RECURSIVE Join(_)
Join(dirs) ==
    IF dirs = <<>> THEN Str0
    ELSE IF Len(dirs) = 1 THEN dirs[1]
    ELSE dirs[1] \o <<SLASH>> \o Join(Tail(dirs))

\* the segment sequence of the last call's path (the call's path is valid)
CallValid == validatePath(call.path).ok
CallDirs == validatePath(call.path).dirs

\* the view a single-item action resolves in, and the error of its open
ActionView(op) == IF op = "Read" THEN RView ELSE WView

OpenError(op, file) ==
    IF op = "Read" THEN ReadOf(file)
    ELSE IF op = "Write" THEN WriteOf(file)
    ELSE AppendOf(file)

\* what binding b alone gives for dirs: the item its walk reaches
Reaches(b, dirs, create) ==
    IF Covers(b.mp, dirs) THEN walk(b.ds, dirs, Len(b.mp) + 1, create).ds ELSE NilDS

\* the single-item action op on dirs works on binding b taken alone
WorksOn(b, op, dirs) ==
    /\ Reaches(b, dirs, op # "Read") # NilDS
    /\ AsFile(Reaches(b, dirs, op # "Read"))
    /\ OpenError(op, Reaches(b, dirs, op # "Read")) = NoError

\* every binding of the view is mounted at the same place, and there are several
Multiplexed(view) ==
    /\ Len(view) >= 2
    /\ \A i, j \in 1..Len(view) : view[i].mp = view[j].mp

(***************************************************************************)
(* C1.  When several data sources are mounted at the same location, a      *)
(* single-item action (Read, Write, Append) is tried on them in mount      *)
(* order and the first one on which it works is the one used: when the     *)
(* action works on some source, the call succeeds and opens the item of    *)
(* the first source on which it works.                                     *)
(***************************************************************************)
C1_FirstWorkingSourceUsed ==
    (/\ call.op \in {"Read", "Write", "Append"}
     /\ CallValid
     /\ Multiplexed(ActionView(call.op))
     /\ \E j \in 1..Len(ActionView(call.op)) :
            WorksOn(ActionView(call.op)[j], call.op, CallDirs))
    => LET view == ActionView(call.op)
           j == CHOOSE j \in 1..Len(view) :
                    /\ WorksOn(view[j], call.op, CallDirs)
                    /\ \A i \in 1..(j - 1) : ~WorksOn(view[i], call.op, CallDirs)
       IN /\ call.err = Nil
          /\ call.rtn = Reaches(view[j], CallDirs, call.op # "Read")

(***************************************************************************)
(* C2.  An item that was only ever supplied to Mount or SwapMount with     *)
(* writable = false is never the root of a write-side action.  Write,      *)
(* Append, WriteAll and Delete take their roots from the write half, so,   *)
(* step by step: a data source becomes an item of the write half only in a *)
(* Mount or SwapMount call that supplies it with writable = true.          *)
(***************************************************************************)
WItems == {WView[i].ds : i \in 1..Len(WView)}

C2_WriteRootsSuppliedWritable ==
    [][\A it \in WItems' \ WItems :
          /\ call'.op \in {"Mount", "SwapMount"}
          /\ call'.ds = it
          /\ call'.flag]_vars

(***************************************************************************)
(* C3.  If only Dirs are mounted, all at the path p, then List(p) returns  *)
(* exactly the union of their children's names, each name once, a name     *)
(* contributed by an earlier-mounted item before any name first            *)
(* contributed by a later-mounted one.                                     *)
(***************************************************************************)
\* the names a Dir lists, as a set (the same in every listing order)
Kids(dir) == {ListOf(dir, "fwd")[i] : i \in 1..Len(ListOf(dir, "fwd"))}

\* the first binding of the view whose item lists the name n
FirstWith(view, n) ==
    CHOOSE k \in 1..Len(view) :
        /\ n \in Kids(view[k].ds)
        /\ \A i \in 1..(k - 1) : n \notin Kids(view[i].ds)

OnlyDirsAt(view, p) ==
    /\ Len(view) >= 1
    /\ \A i \in 1..Len(view) : view[i].mp = p /\ AsDir(view[i].ds)

C3_ListIsOrderedUnion ==
    (call.op = "List" /\ CallValid /\ OnlyDirsAt(RView, CallDirs))
    => /\ {call.names[i] : i \in 1..Len(call.names)}
              = UNION {Kids(RView[k].ds) : k \in 1..Len(RView)}
       /\ \A i, j \in 1..Len(call.names) : i # j => call.names[i] # call.names[j]
       /\ \A i, j \in 1..Len(call.names) :
              FirstWith(RView, call.names[i]) < FirstWith(RView, call.names[j]) => i < j

\* List("") on od then zd, both mounted at the root: a from od, b and c from zd
C3_Witness ==
    /\ call.op = "List"
    /\ CallValid
    /\ OnlyDirsAt(RView, CallDirs)
    /\ Len(RView) = 2
    /\ RView[1].ds = "od"
    /\ RView[2].ds = "zd"
    /\ Len(call.names) = 3
    /\ call.names[1] = NA

(***************************************************************************)
(* C4.  With several Dirs mounted writable at the same path p, Delete(p/n) *)
(* calls Delete(n) on exactly one of them, the first in mount order whose  *)
(* Child(n, CreateNone) is not nil, and returns that call's wrapped        *)
(* outcome without touching any later one; if none has n, Delete returns   *)
(* ErrNotFound and calls no Delete at all.                                 *)
(***************************************************************************)
Front(s) == SubSeq(s, 1, Len(s) - 1)
Last(s) == s[Len(s)]

CallsOf(method) == SelectSeq(call.log, LAMBDA c : c.method = method)

\* Delete(p/n), the path written canonically, with only Dirs in the write
\* half, several of them, all mounted at p
DeleteUnderMultiplex ==
    /\ call.op = "Delete"
    /\ CallValid
    /\ CallDirs # <<>>
    /\ call.path = Join(CallDirs)
    /\ Multiplexed(WView)
    /\ OnlyDirsAt(WView, Front(CallDirs))

HasChild(b, n) == Child(b.ds, n, CreateNone) # NilDS

C4_DeleteOnFirstHolder ==
    DeleteUnderMultiplex
    => LET n == Last(CallDirs) IN
       IF \E k \in 1..Len(WView) : HasChild(WView[k], n)
       THEN LET k == CHOOSE k \in 1..Len(WView) :
                        /\ HasChild(WView[k], n)
                        /\ \A i \in 1..(k - 1) : ~HasChild(WView[i], n)
            IN /\ Len(CallsOf("Delete")) = 1
               /\ CallsOf("Delete")[1].ds = WView[k].ds
               /\ CallsOf("Delete")[1].id = n
               /\ call.err = wrapError(DeleteOf(WView[k].ds, n), call.path)
               /\ Len(CallsOf("Child")) = k
               /\ \A i \in 1..k :
                      /\ CallsOf("Child")[i].ds = WView[i].ds
                      /\ CallsOf("Child")[i].id = n
                      /\ CallsOf("Child")[i].hint = CreateNone
       ELSE /\ call.err = Error(call.path, ErrNotFound)
            /\ CallsOf("Delete") = <<>>

\* Delete("b") with od before zd at the root: od has no b, zd deletes
C4_Witness ==
    /\ DeleteUnderMultiplex
    /\ ~HasChild(WView[1], Last(CallDirs))
    /\ HasChild(WView[2], Last(CallDirs))
    /\ Len(CallsOf("Delete")) = 1
    /\ CallsOf("Delete")[1].ds = WView[2].ds
    /\ call.err.typ = ErrReadOnly

(***************************************************************************)
(* C5.  If path p is a strict prefix of some mount point of the read half  *)
(* and no binding resolves an item at p, then GetDSAt(p) and Read(p)       *)
(* return ErrBadAction, IsMP(p) and Exists(p) are true, and the last       *)
(* segment of p appears in List and ListDirs of p's parent.                *)
(***************************************************************************)
StrictPrefixOfMP(d) ==
    \E i \in 1..Len(RView) :
        /\ Len(RView[i].mp) > Len(d)
        /\ SubSeq(RView[i].mp, 1, Len(d)) = d

NoItemAt(d, create) ==
    \A i \in 1..Len(RView) : Reaches(RView[i], d, create) = NilDS

SubsetOnly(d, create) == StrictPrefixOfMP(d) /\ NoItemAt(d, create)

C5_SubsetOnlyPath ==
    CallValid
    => /\ (call.op = "GetDSAt" /\ call.flag /\ SubsetOnly(CallDirs, call.create))
              => call.err.typ = ErrBadAction
       /\ (call.op = "Read" /\ SubsetOnly(CallDirs, FALSE))
              => call.err.typ = ErrBadAction
       /\ (call.op \in {"IsMP", "Exists"} /\ SubsetOnly(CallDirs, FALSE))
              => call.ok
       /\ call.op \in {"List", "ListDirs"}
              => \A n \in {NA, NB, NC} :
                     SubsetOnly(CallDirs \o <<n>>, FALSE)
                         => \E i \in 1..Len(call.names) : call.names[i] = n

\* Read("a") with something mounted at a/b and nothing that has an a at the root
C5_Witness ==
    /\ call.op = "Read"
    /\ CallValid
    /\ CallDirs = <<NA>>
    /\ SubsetOnly(CallDirs, FALSE)
    /\ call.err.typ = ErrBadAction

(***************************************************************************)
(* C6.  After a successful Mount(path, item, w), and as long as the        *)
(* binding stays, GetDSsAt(path, false, true) succeeds and has item among  *)
(* its results whatever other bindings exist before or after it; when w is *)
(* true the same holds in the write half.                                  *)
(***************************************************************************)
Includes(res, ds) ==
    /\ res.err = Nil
    /\ \E k \in 1..Len(res.dss) : res.dss[k] = ds

C6_MountedItemResolves ==
    /\ \A i \in 1..Len(RView) :
           Includes(GetDSsAt(Join(RView[i].mp), FALSE, TRUE), RView[i].ds)
    /\ \A i \in 1..Len(WView) :
           Includes(GetDSsAt(Join(WView[i].mp), FALSE, FALSE), WView[i].ds)
    /\ (call.op = "Mount" /\ call.err = Nil)
           => /\ Includes(GetDSsAt(call.path, FALSE, TRUE), call.ds)
              /\ call.flag => Includes(GetDSsAt(call.path, FALSE, FALSE), call.ds)

\* Mount("a//b/", zd, true) after another data source was mounted at a/b
C6_Witness ==
    /\ call.op = "Mount"
    /\ call.err = Nil
    /\ call.flag
    /\ call.path # Join(CallDirs)
    /\ Len(RView) = 2
    /\ RView[1].mp = RView[2].mp
    /\ RView[1].ds # RView[2].ds
    /\ RView[2].ds = call.ds

(***************************************************************************)
(* C7.  Mount(path, item, writable) with a valid path and an item that is  *)
(* a Dir or a File always succeeds, also when bindings with the same       *)
(* segment sequence or the same item exist; it appends exactly one binding *)
(* at the end of the read half and, iff writable, at the end of the write  *)
(* half, and leaves every existing binding and its position unchanged.     *)
(***************************************************************************)
C7_MountAppends ==
    [][(/\ call'.op = "Mount"
        /\ validatePath(call'.path).ok
        /\ (AsDir(call'.ds) \/ AsFile(call'.ds)))
       => /\ call'.err = Nil
          /\ RView' = Append(RView, Source(validatePath(call'.path).dirs, call'.ds))
          /\ WView' = IF call'.flag
                      THEN Append(WView, Source(validatePath(call'.path).dirs, call'.ds))
                      ELSE WView]_vars

\* the same item mounted twice at the same place
C7_Witness ==
    /\ call.op = "Mount"
    /\ call.err = Nil
    /\ Len(RView) = 2
    /\ RView[1] = RView[2]
    /\ Len(WView) = 1

(***************************************************************************)
(* C8.  After Unmount(path, true) neither half has a binding whose segment *)
(* sequence equals path's, however many were multiplexed there; after      *)
(* Unmount(path, false) this holds for the write half while the read half  *)
(* keeps its bindings.                                                     *)
(***************************************************************************)
NoneAt(view, dirs) == \A i \in 1..Len(view) : view[i].mp # dirs

C8_UnmountRemovesAll ==
    [][(call'.op = "Unmount" /\ validatePath(call'.path).ok)
       => /\ NoneAt(WView', validatePath(call'.path).dirs)
          /\ call'.flag => NoneAt(RView', validatePath(call'.path).dirs)
          /\ ~call'.flag => RView' = RView]_vars

\* Unmount(path, false) with two bindings multiplexed at path: both are
\* still in the read half, none is in the write half
C8_Witness ==
    /\ call.op = "Unmount"
    /\ CallValid
    /\ ~call.flag
    /\ Len(RView) = 2
    /\ RView[1].mp = CallDirs
    /\ RView[2].mp = CallDirs
    /\ WView = <<>>

(***************************************************************************)
(* C9.  SwapMount(path, item, writable) with a valid path and a capable    *)
(* item replaces the item of exactly one binding of the read half, the     *)
(* first whose segment sequence equals path's, and returns that binding's  *)
(* previous item (nil when nothing matches); every other binding of the    *)
(* read half keeps its item, and the length and order of both halves are   *)
(* unchanged.                                                              *)
(***************************************************************************)
FirstAt(view, dirs) ==
    IF \E i \in 1..Len(view) : view[i].mp = dirs
    THEN CHOOSE i \in 1..Len(view) :
            view[i].mp = dirs /\ \A j \in 1..(i - 1) : view[j].mp # dirs
    ELSE 0

MPs(view) == [i \in 1..Len(view) |-> view[i].mp]

C9_SwapReplacesOneBinding ==
    [][(/\ call'.op = "SwapMount"
        /\ validatePath(call'.path).ok
        /\ (AsDir(call'.ds) \/ AsFile(call'.ds)))
       => LET k == FirstAt(RView, validatePath(call'.path).dirs) IN
          /\ IF k = 0
             THEN call'.rtn = NilDS /\ RView' = RView
             ELSE /\ call'.rtn = RView[k].ds
                  /\ RView' = [RView EXCEPT ![k].ds = call'.ds]
          /\ MPs(WView') = MPs(WView)
          /\ r' = r
          /\ w' = w]_vars

(***************************************************************************)
(* C10.  After any sequence of Mount, Unmount and SwapMount calls, every   *)
(* binding of the write half is also a binding of the read half, in the    *)
(* same relative order.                                                    *)
(***************************************************************************)
\* s is a subsequence of t
RECURSIVE IsSubSeq(_, _)
IsSubSeq(s, t) ==
    IF s = <<>> THEN TRUE
    ELSE IF t = <<>> THEN FALSE
    ELSE IF Head(s) = Head(t) THEN IsSubSeq(Tail(s), Tail(t))
    ELSE IsSubSeq(s, Tail(t))

C10_WriteHalfWithinReadHalf ==
    IsSubSeq(w, r)

\* a read-only binding followed by a writable one
C10_Witness ==
    /\ Len(r) = 2
    /\ Len(w) = 1
    /\ w[1] = r[2]

(***************************************************************************)
(* C11.  With an archive mounted for reading only (writable = false) at a  *)
(* mount point, and a file of the archive two levels below it, opening the *)
(* file for writing returns an ErrRaw error that wraps the backend's       *)
(* read-only rejection and carries the caller's path.                      *)
(***************************************************************************)
\* the archive zd mounted at a/b; its file b/a has the path a/b/b/a
ArchiveMP == <<NA, NB>>
ArchiveFile == <<"a", "/", "b", "/", "b", "/", "a">>

ArchiveReadOnly ==
    /\ RView = <<Source(ArchiveMP, "zd")>>
    /\ WView = <<>>

ArchiveWritable ==
    /\ RView = <<Source(ArchiveMP, "zd")>>
    /\ WView = RView

C11_WriteOnReadOnlyArchiveIsRaw ==
    (call.op = "Write" /\ call.path = ArchiveFile /\ ArchiveReadOnly)
    => /\ call.err.typ = ErrRaw
       /\ call.err.err # ""
       /\ call.err.path = ArchiveFile

(***************************************************************************)
(* C11, amended.  With the archive mounted with writable = false the write *)
(* half does not hold it: opening the file for writing returns ErrNotFound *)
(* with the caller's path and no backend is asked.  With the archive       *)
(* mounted with writable = true the open reaches the backend and returns   *)
(* the backend's own ErrReadOnly error with the caller's path, not an      *)
(* ErrRaw wrapping.                                                        *)
(***************************************************************************)
C11_WriteOnReadOnlyArchive ==
    (call.op = "Write" /\ call.path = ArchiveFile)
    => /\ ArchiveReadOnly
           => /\ call.err = Error(ArchiveFile, ErrNotFound)
              /\ call.log = <<>>
       /\ ArchiveWritable
           => /\ call.err = [typ |-> ErrReadOnly, path |-> ArchiveFile, err |-> ""]
              /\ call.log # <<>>
              /\ call.log[Len(call.log)].ds = "zf_ba"
              /\ call.log[Len(call.log)].method = "Write"

C11_Witness ==
    /\ call.op = "Write"
    /\ call.path = ArchiveFile
    /\ ArchiveReadOnly
    /\ call.err.typ = ErrNotFound

(***************************************************************************)
(* C12.  Every error returned by Mount, Unmount, GetDSAt, Read, ReadAll,   *)
(* Write, Append, WriteAll or Delete is an *Error whose Path is exactly    *)
(* the path string the caller passed to that operation.                    *)
(***************************************************************************)
ErrorOps ==
    {"Mount", "Unmount", "GetDSAt", "Read", "ReadAll", "Write", "Append",
     "WriteAll", "Delete"}

ErrTyps == {ErrNotFound, ErrReadOnly, ErrBadAction, ErrBadPath, ErrRaw}

C12_ErrorCarriesCallerPath ==
    (call.op \in ErrorOps /\ call.err # Nil)
    => /\ call.err.typ \in ErrTyps
       /\ call.err.path = call.path

(***************************************************************************)
(* C13.  Mount of an item that is neither a Dir nor a File, at any valid   *)
(* path and with either value of rw, returns ErrBadAction and leaves both  *)
(* halves as they were.                                                    *)
(***************************************************************************)
C13_MountOfIncapableItem ==
    [][(/\ call'.op = "Mount"
        /\ validatePath(call'.path).ok
        /\ ~AsDir(call'.ds)
        /\ ~AsFile(call'.ds))
       => /\ call'.err = Error(call'.path, ErrBadAction)
          /\ RView' = RView
          /\ WView' = WView
          /\ r' = r
          /\ w' = w]_vars

\* the refused Mount, writable, at a/b, of a table that holds a binding
C13_Witness ==
    /\ call.op = "Mount"
    /\ call.ds = "none"
    /\ call.flag
    /\ CallDirs = <<NA, NB>>
    /\ call.err.typ = ErrBadAction
    /\ Len(RView) = 1
    /\ Len(WView) = 1

(***************************************************************************)
(* C14.  Mounting the same item at two path strings that normalize to the  *)
(* same segment sequence, "a//b/" and "a/b", gives bindings with identical *)
(* segment sequences: the table after Mount does not depend on the         *)
(* spelling, and each spelling resolves, lists, unmounts and swaps exactly *)
(* the bindings the other does.                                            *)
(***************************************************************************)
Spelled == <<"a", "/", "/", "b", "/">>
Plain == <<"a", "/", "b">>
Spellings == {Spelled, Plain}
SpelledMP == <<NA, NB>>

C14_SpellingsMountAlike ==
    /\ [](/\ GetDSsAt(Spelled, FALSE, TRUE).dss = GetDSsAt(Plain, FALSE, TRUE).dss
          /\ GetDSsAt(Spelled, FALSE, FALSE).dss = GetDSsAt(Plain, FALSE, FALSE).dss
          /\ List(Spelled, "fwd") = List(Plain, "fwd")
          /\ \A i \in 1..Len(RView) :
                 RView[i].mp = SpelledMP
                     => \E k \in 1..Len(GetDSsAt(Spelled, FALSE, TRUE).dss) :
                            GetDSsAt(Spelled, FALSE, TRUE).dss[k] = RView[i].ds)
    /\ [][call'.path \in Spellings
          => /\ (call'.op = "Mount" /\ call'.err = Nil)
                    => /\ RView' = Append(RView, Source(SpelledMP, call'.ds))
                       /\ WView' = IF call'.flag
                                   THEN Append(WView, Source(SpelledMP, call'.ds))
                                   ELSE WView
             /\ call'.op = "Unmount"
                    => /\ call'.err = Nil
                       /\ NoneAt(WView', SpelledMP)
                       /\ call'.flag => NoneAt(RView', SpelledMP)
             /\ (/\ call'.op = "SwapMount"
                 /\ (AsDir(call'.ds) \/ AsFile(call'.ds))
                 /\ FirstAt(RView, SpelledMP) # 0)
                    => /\ call'.rtn = RView[FirstAt(RView, SpelledMP)].ds
                       /\ RView'[FirstAt(RView, SpelledMP)].ds = call'.ds]_vars

\* Mount("a//b/", ds, rw) next to a binding of the same item at a/b
C14_Witness ==
    /\ call.op = "Mount"
    /\ call.path = Spelled
    /\ call.err = Nil
    /\ Len(RView) = 2
    /\ RView[1] = RView[2]
    /\ RView[2] = Source(SpelledMP, call.ds)

(***************************************************************************)
(* C15.  For any mount table and any two path strings that normalize to    *)
(* the same segment sequence, each of Exists, IsDir, IsMP, Size, List,     *)
(* ListDirs, ListFiles, Read, Write, Append and Delete gives the same      *)
(* result and makes the same backend calls, differing at most in the path  *)
(* text of a returned error.  Stated against the canonical spelling: the   *)
(* call's outcome is the outcome of the same call on the names joined by   *)
(* single slashes.                                                         *)
(***************************************************************************)
PathOps ==
    {"Exists", "IsDir", "IsMP", "Size", "List", "ListDirs", "ListFiles",
     "Read", "Write", "Append", "Delete"}

\* what op returns for path (zo: the order the archive lists in)
OnPath(op, path, zo) ==
    CASE op = "Exists" -> Exists(path)
      [] op = "IsDir" -> IsDir(path)
      [] op = "IsMP" -> IsMP(path)
      [] op = "Size" -> Size(path)
      [] op = "List" -> List(path, zo)
      [] op = "ListDirs" -> ListDirs(path, zo)
      [] op = "ListFiles" -> ListFiles(path, zo)
      [] op = "Read" -> Read(path)
      [] op = "Write" -> Write(path)
      [] op = "Append" -> AppendTo(path)
      [] op = "Delete" -> Delete(path)

\* the call c returned what res holds, the path text of an error aside
Alike(c, res) ==
    \A f \in DOMAIN res \cap DOMAIN c :
        IF f = "err"
        THEN c.err.typ = res.err.typ /\ c.err.err = res.err.err
        ELSE c[f] = res[f]

C15_SpellingsActAlike ==
    (CallValid /\ call.op \in PathOps)
    => \E zo \in ZipOrders : Alike(call, OnPath(call.op, Join(CallDirs), zo))

(***************************************************************************)
(* C16.  IsMP(path) returns true if path is exactly the mount point of     *)
(* some binding of the read half or a strict prefix of one (a mount point  *)
(* subset), and false otherwise.                                           *)
(***************************************************************************)
IsMountPoint(d) == \E i \in 1..Len(RView) : RView[i].mp = d

C16_IsMPOfMountPointOrSubset ==
    call.op = "IsMP"
    => call.ok = (CallValid /\ (IsMountPoint(CallDirs) \/ StrictPrefixOfMP(CallDirs)))

(***************************************************************************)
(* C17.  IsDir(path) returns true if path is a mount point subset of the   *)
(* read half or the item path resolves to is a Dir, and false otherwise;   *)
(* in particular it is true for every mount point subset, whatever else is *)
(* mounted at that path.                                                   *)
(***************************************************************************)
\* the item dirs resolves to in the read half: that of the first binding
\* that reaches one, NilDS when none does
FirstReached(dirs) ==
    IF \E i \in 1..Len(RView) : Reaches(RView[i], dirs, FALSE) # NilDS
    THEN Reaches(RView[CHOOSE i \in 1..Len(RView) :
                           /\ Reaches(RView[i], dirs, FALSE) # NilDS
                           /\ \A j \in 1..(i - 1) : Reaches(RView[j], dirs, FALSE) = NilDS],
                 dirs, FALSE)
    ELSE NilDS

C17_IsDirOfSubsetOrDir ==
    call.op = "IsDir"
    => call.ok = (CallValid /\ (StrictPrefixOfMP(CallDirs) \/ AsDir(FirstReached(CallDirs))))

(***************************************************************************)
(* C18.  List(path) and ListDirs(path) never return the same name twice:   *)
(* the result is the set union of the child names of the resolved Dirs and *)
(* the mount point subset names at path, also when a child's name equals   *)
(* the next segment of a mount point below path.                           *)
(***************************************************************************)
NoRepeat(s) == \A i, j \in 1..Len(s) : i # j => s[i] # s[j]

Elems(s) == {s[i] : i \in 1..Len(s)}

\* the Dirs the bindings of the read half reach at dirs
DirsReached(dirs) ==
    {Reaches(RView[i], dirs, FALSE) : i \in 1..Len(RView)} \cap (OsDirs \cup ZDirs)

\* the next segment of every mount point of the read half strictly below dirs
SubsetNames(dirs) ==
    {RView[i].mp[Len(dirs) + 1] :
        i \in {k \in 1..Len(RView) :
                  /\ Len(RView[k].mp) > Len(dirs)
                  /\ SubSeq(RView[k].mp, 1, Len(dirs)) = dirs}}

C18_ListingHasNoRepeats ==
    (call.op \in {"List", "ListDirs"} /\ CallValid)
    => /\ NoRepeat(call.names)
       /\ Elems(call.names) \subseteq
              UNION {Kids(d) : d \in DirsReached(CallDirs)} \cup SubsetNames(CallDirs)
       /\ call.op = "List"
              => Elems(call.names) =
                     UNION {Kids(d) : d \in DirsReached(CallDirs)} \cup SubsetNames(CallDirs)

(***************************************************************************)
(* C19.  ListFiles(path) visits every binding that resolves at path and    *)
(* returns the File children of each resolved item that is a Dir: a        *)
(* resolved item that is no Dir is skipped and does not suppress the files *)
(* the Dirs contribute, whatever the mount order.  A name that is a File   *)
(* in every resolved Dir that lists it is returned; every name returned is *)
(* a File child of some resolved Dir.                                      *)
(***************************************************************************)
\* the names dir lists whose child is a File
Leaves(dir) == {n \in Kids(dir) : AsFile(Child(dir, n, CreateNone))}

LeavesAt(dirs) == UNION {Leaves(d) : d \in DirsReached(dirs)}

\* the names that are a File in every resolved Dir that lists them
SureLeavesAt(dirs) ==
    {n \in LeavesAt(dirs) : \A d \in DirsReached(dirs) : n \in Kids(d) => n \in Leaves(d)}

C19_ListFilesSkipsNonDirs ==
    (call.op = "ListFiles" /\ CallValid)
    => /\ SureLeavesAt(CallDirs) \subseteq Elems(call.names)
       /\ Elems(call.names) \subseteq LeavesAt(CallDirs)

(***************************************************************************)
(* C20.  ReadAll and WriteAll close the stream they opened exactly once    *)
(* before returning, on every exit path (the transfer succeeds, the read   *)
(* fails, the write fails), and open no stream when the open itself fails. *)
(***************************************************************************)
OpenOf(op) == IF op = "ReadAll" THEN "Read" ELSE "Write"
TransferOf(op) == IF op = "ReadAll" THEN "stream.Read" ELSE "stream.Write"

\* the call opened a stream: it called the File's Read or Write and got one
StreamOpened ==
    /\ Len(CallsOf(OpenOf(call.op))) = 1
    /\ OpenError(OpenOf(call.op), CallsOf(OpenOf(call.op))[1].ds) = NoError

StreamCalls ==
    SelectSeq(call.log, LAMBDA c : c.method \in {"stream.Read", "stream.Write", "stream.Close"})

C20_StreamClosedOnce ==
    call.op \in {"ReadAll", "WriteAll"}
    => IF StreamOpened
       THEN /\ Len(StreamCalls) = 2
            /\ StreamCalls[1].method = TransferOf(call.op)
            /\ StreamCalls[2].method = "stream.Close"
            /\ StreamCalls[1].ds = CallsOf(OpenOf(call.op))[1].ds
            /\ StreamCalls[2].ds = CallsOf(OpenOf(call.op))[1].ds
            /\ call.log[Len(call.log)].method = "stream.Close"
       ELSE /\ StreamCalls = <<>>
            /\ call.err # Nil

\* ReadAll whose read failed: the error is returned and the stream is closed
C20_Witness ==
    /\ call.op = "ReadAll"
    /\ StreamOpened
    /\ call.err.typ = ErrRaw
    /\ Len(CallsOf("stream.Close")) = 1

(***************************************************************************)
(* C21.  When resolution in a half yields no item, the error is            *)
(* ErrBadAction if the path is a mount point subset in that same half and  *)
(* ErrNotFound otherwise: Read of a path with no item and no mount point   *)
(* below it returns ErrNotFound, and a resolution in the write half of a   *)
(* path that is a mount point subset only through bindings mounted for     *)
(* reading returns ErrNotFound, not ErrBadAction.                          *)
(***************************************************************************)
StrictPrefixIn(view, d) ==
    \E i \in 1..Len(view) :
        /\ Len(view[i].mp) > Len(d)
        /\ SubSeq(view[i].mp, 1, Len(d)) = d

NoItemIn(view, d, create) ==
    \A i \in 1..Len(view) : Reaches(view[i], d, create) = NilDS

\* the error of a resolution of the call's path that found nothing in view
NothingIn(view) ==
    Error(call.path, IF StrictPrefixIn(view, CallDirs) THEN ErrBadAction ELSE ErrNotFound)

HalfOf(rd) == IF rd THEN RView ELSE WView

C21_ErrorOfEmptyResolution ==
    CallValid
    => /\ (/\ call.op \in {"GetDSsAt", "GetDSAt"}
           /\ NoItemIn(HalfOf(call.flag), CallDirs, call.create))
              => call.err = NothingIn(HalfOf(call.flag))
       /\ (call.op = "Read" /\ NoItemIn(RView, CallDirs, FALSE))
              => call.err = NothingIn(RView)
       /\ (call.op \in {"Write", "Append"} /\ NoItemIn(WView, CallDirs, TRUE))
              => call.err = NothingIn(WView)

\* Write("a") with a binding at a/b in the read half only
C21_Witness ==
    /\ call.op = "Write"
    /\ CallDirs = <<NA>>
    /\ StrictPrefixIn(RView, CallDirs)
    /\ WView = <<>>
    /\ call.err = Error(call.path, ErrNotFound)

(***************************************************************************)
(* C22.  For every valid path p normalization is idempotent: joining the   *)
(* names validatePath(p) returns with "/" and validating that string       *)
(* succeeds and returns the same names.                                    *)
(***************************************************************************)
C22_NormalizationIdempotent ==
    (call.op = "validatePath" /\ call.ok)
    => validatePath(Join(call.names)) = Dirs(call.names)

\* a path with a doubled slash, which the joined names do not have
C22_Witness ==
    /\ call.op = "validatePath"
    /\ call.ok
    /\ Len(call.names) = 2
    /\ call.path # Join(call.names)
    /\ validatePath(Join(call.names)).dirs = call.names

(***************************************************************************)
(* C28.  validatePath accepts a string exactly when it holds no reserved   *)
(* character and none of its "/"-separated pieces is "." or ".." (the      *)
(* empty string is always accepted); for an accepted string it returns the *)
(* non-empty pieces in their original order, so a string of slashes only   *)
(* gives the empty sequence and no returned name is empty.                 *)
(***************************************************************************)
\* the positions that bound the pieces of s: before it, its slashes, after it
Cuts(s) == {0, Len(s) + 1} \cup {i \in 1..Len(s) : s[i] = SLASH}

NextCut(s, p) == CHOOSE q \in Cuts(s) : q > p /\ \A c \in Cuts(s) : c > p => q <= c

\* the piece of s that begins after the cut p
PieceAfter(s, p) == SubSeq(s, p + 1, NextCut(s, p) - 1)

PieceStarts(s) == Cuts(s) \ {Len(s) + 1}

Accepted(s) ==
    \/ s = Str0
    \/ /\ \A i \in 1..Len(s) : s[i] \notin ReservedChars
       /\ \A p \in PieceStarts(s) : PieceAfter(s, p) \notin {DOT, DOTDOT}

\* the non-empty pieces of s, in their order in s
NonEmptyPieces(s) ==
    LET starts == {p \in PieceStarts(s) : PieceAfter(s, p) # Str0}
        order == CHOOSE f \in [1..Cardinality(starts) -> starts] :
                     \A i, j \in 1..Cardinality(starts) : i < j => f[i] < f[j]
    IN [i \in 1..Cardinality(starts) |-> PieceAfter(s, order[i])]

C28_ValidatePathAcceptsAndSplits ==
    call.op = "validatePath"
    => /\ call.ok = Accepted(call.path)
       /\ call.ok
           => /\ call.names = NonEmptyPieces(call.path)
              /\ \A i \in 1..Len(call.names) : call.names[i] # Str0
              /\ (\A i \in 1..Len(call.path) : call.path[i] = SLASH) => call.names = <<>>

\* "//" and longer: accepted, and the root
C28_Witness ==
    /\ call.op = "validatePath"
    /\ Len(call.path) >= 2
    /\ \A i \in 1..Len(call.path) : call.path[i] = SLASH
    /\ call.ok
    /\ call.names = <<>>

(***************************************************************************)
(* C23.  GetDSsAt(path, create, r) returns exactly one item for each       *)
(* binding of the selected half whose mount point is a prefix of the path  *)
(* and whose child-by-child walk of the remaining names succeeds, in the   *)
(* bindings' order; a binding whose walk meets a value that is no Dir or a *)
(* missing child contributes nothing and keeps no earlier or later binding *)
(* from contributing.                                                      *)
(***************************************************************************)
IsPrefix(mp, d) == Len(mp) <= Len(d) /\ SubSeq(d, 1, Len(mp)) = mp

\* the flag for the first of the names in rest
HintFor(rest, create) ==
    IF ~create THEN CreateNone
    ELSE IF Len(rest) = 1 THEN CreateFile
    ELSE CreateDir

\* the item reached from ds along the names in rest, NilDS when there is none
RECURSIVE Descend(_, _, _)
Descend(ds, rest, create) ==
    IF rest = <<>> THEN ds
    ELSE IF ~AsDir(ds) THEN NilDS
    ELSE IF Child(ds, Head(rest), HintFor(rest, create)) = NilDS THEN NilDS
    ELSE Descend(Child(ds, Head(rest), HintFor(rest, create)), Tail(rest), create)

\* what the binding b contributes to the resolution of d
Contribution(b, d, create) ==
    IF IsPrefix(b.mp, d)
    THEN Descend(b.ds, SubSeq(d, Len(b.mp) + 1, Len(d)), create)
    ELSE NilDS

Contributions(view, d, create) ==
    SelectSeq([i \in 1..Len(view) |-> Contribution(view[i], d, create)],
              LAMBDA ds : ds # NilDS)

C23_OneItemPerResolvingBinding ==
    (call.op = "GetDSsAt" /\ CallValid)
    => /\ call.dss = Contributions(HalfOf(call.flag), CallDirs, call.create)
       /\ call.err = Nil <=> call.dss # <<>>

\* the walk of the first binding fails at a missing child, the second
\* binding's walk succeeds
C23_Witness ==
    /\ call.op = "GetDSsAt"
    /\ CallValid
    /\ CallDirs # <<>>
    /\ Len(HalfOf(call.flag)) = 2
    /\ IsPrefix(HalfOf(call.flag)[1].mp, CallDirs)
    /\ Contribution(HalfOf(call.flag)[1], CallDirs, call.create) = NilDS
    /\ Contribution(HalfOf(call.flag)[2], CallDirs, call.create) # NilDS
    /\ Len(call.dss) = 1
    /\ call.err = Nil

(***************************************************************************)
(* C24.  During the resolution for Write and Append every Child call       *)
(* carries CreateFile when its name is the last of the path and CreateDir  *)
(* when more names remain; during the resolution for every other           *)
(* operation (Exists, IsDir, Size, List, ListDirs, ListFiles, Read,        *)
(* ReadAll, Delete) every Child call carries CreateNone.                   *)
(***************************************************************************)
\* the Child calls of the walk from ds along the names in rest
RECURSIVE DescendCalls(_, _, _)
DescendCalls(ds, rest, create) ==
    IF rest = <<>> \/ ~AsDir(ds) THEN <<>>
    ELSE <<BCall(ds, "Child", Head(rest), HintFor(rest, create))>> \o
         (IF Child(ds, Head(rest), HintFor(rest, create)) = NilDS THEN <<>>
          ELSE DescendCalls(Child(ds, Head(rest), HintFor(rest, create)),
                            Tail(rest), create))

\* the Child calls of the resolution of d in view, binding after binding
RECURSIVE ResolutionCalls(_, _, _)
ResolutionCalls(view, d, create) ==
    IF view = <<>> THEN <<>>
    ELSE (IF IsPrefix(Head(view).mp, d)
          THEN DescendCalls(Head(view).ds, SubSeq(d, Len(Head(view).mp) + 1, Len(d)), create)
          ELSE <<>>)
         \o ResolutionCalls(Tail(view), d, create)

NoCreationOps ==
    {"Exists", "IsDir", "Size", "List", "ListDirs", "ListFiles", "Read",
     "ReadAll", "Delete"}

C24_CreationHints ==
    /\ (call.op \in {"Write", "Append"} /\ CallValid)
           => CallsOf("Child") = ResolutionCalls(WView, CallDirs, TRUE)
    /\ call.op \in NoCreationOps
           => \A i \in 1..Len(CallsOf("Child")) : CallsOf("Child")[i].hint = CreateNone

\* Write("a/b") through a directory mounted at the root
C24_Witness ==
    /\ call.op = "Write"
    /\ CallDirs = <<NA, NB>>
    /\ Len(CallsOf("Child")) = 2
    /\ CallsOf("Child")[1].hint = CreateDir
    /\ CallsOf("Child")[2].hint = CreateFile

(***************************************************************************)
(* C25.  Delete(path) validates the whole path the caller passed before    *)
(* any resolution: if any name of path, the final one included, is "." or  *)
(* ".." or holds a reserved character, Delete returns ErrBadPath and makes *)
(* no Child and no Delete call on any backend.                             *)
(***************************************************************************)
C25_DeleteValidatesWholePath ==
    (call.op = "Delete" /\ ~CallValid)
    => /\ call.err.typ = ErrBadPath
       /\ CallsOf("Child") = <<>>
       /\ CallsOf("Delete") = <<>>

(***************************************************************************)
(* C26.  Unmount(path, alsoRemoveFromRead) with a valid path leaves every  *)
(* binding whose segment sequence differs from path's, longer and shorter  *)
(* ones included, in its half and in the same relative order; with         *)
(* alsoRemoveFromRead false the read half is unchanged; when no binding    *)
(* matches both halves are unchanged and the call returns no error.        *)
(***************************************************************************)
Others(view, dirs) == SelectSeq(view, LAMBDA b : b.mp # dirs)

NotExist(err) ==
    err.kind = "patherr" /\ err.inner \in {"os.ErrNotExist", "syscall.ENOENT"}

C27_ErrorNormalization ==
    call.op = "wrapError"
    => CASE call.from.kind = "nil" -> call.err = Nil
         [] call.from.kind = "axis" ->
                call.err = Error(call.path, call.from.typ)
         [] NotExist(call.from) -> call.err = Error(call.path, ErrNotFound)
         [] OTHER -> call.err = [typ |-> ErrRaw, path |-> call.path,
                                 err |-> call.from.inner]

(***************************************************************************)
(* C29.  For every mount table, path and half, isMP(path, half) is true    *)
(* exactly when mountSubset(path, half) is a non-empty list, and           *)
(* mountSubset returns each distinct next-segment name once, in the order  *)
(* of its first occurrence among the bindings whose mount point is         *)
(* strictly longer than path and begins with it.                           *)
(***************************************************************************)
\* the name after dirs of every binding of view strictly below dirs
NextNames(view, dirs) ==
    LET below == SelectSeq(view, LAMBDA b :
                     /\ Len(b.mp) > Len(dirs)
                     /\ SubSeq(b.mp, 1, Len(dirs)) = dirs)
    IN [i \in 1..Len(below) |-> below[i].mp[Len(dirs) + 1]]

\* names without the later occurrences of a name
RECURSIVE FirstOccurrences(_)
FirstOccurrences(names) ==
    IF names = <<>> THEN <<>>
    ELSE LET front == FirstOccurrences(Front(names)) IN
         IF \E k \in 1..(Len(names) - 1) : names[k] = Last(names)
         THEN front
         ELSE Append(front, Last(names))

C29_IsMPIffSubsetNonEmpty ==
    /\ call.op = "mountSubset"
       => call.names = IF CallValid
                       THEN FirstOccurrences(NextNames(HalfOf(call.flag), CallDirs))
                       ELSE <<>>
    /\ call.op = "isMP"
       => (call.ok <=> mountSubset(call.path, call.flag) # <<>>)

\* mountSubset of the root on three bindings below it, two of them under the
\* same name: two names, the later-sorting one first
C29_Witness ==
    /\ call.op = "mountSubset"
    /\ call.path = Str0
    /\ call.flag
    /\ Len(RView) = 3
    /\ \A i \in 1..3 : RView[i].mp # <<>>
    /\ call.names = <<NB, NA>>

\* isMP is true of a path with one binding below it
C29_WitnessIsMP ==
    /\ call.op = "isMP"
    /\ call.ok
    /\ CallDirs = <<NA>>
    /\ Len(WView) = 1

(***************************************************************************)
(* C30.  A Write or Append makes Child calls that carry a creation hint    *)
(* only on the binding whose item it finally opens: the other bindings of  *)
(* the write half whose mount point is also a prefix of the path receive   *)
(* no Child call with a creation hint.                                     *)
(***************************************************************************)
\* the first binding of view that contributes an item for d, 0 when none does
Opener(view, d) ==
    IF \E i \in 1..Len(view) : Contribution(view[i], d, TRUE) # NilDS
    THEN CHOOSE i \in 1..Len(view) :
            /\ Contribution(view[i], d, TRUE) # NilDS
            /\ \A j \in 1..(i - 1) : Contribution(view[j], d, TRUE) = NilDS
    ELSE 0

Hinted(calls) == SelectSeq(calls, LAMBDA c : c.hint # CreateNone)

C30_HintsOnlyToOpenedBinding ==
    (/\ call.op \in {"Write", "Append"}
     /\ CallValid
     /\ Opener(WView, CallDirs) # 0)
    => LET b == WView[Opener(WView, CallDirs)] IN
       Hinted(CallsOf("Child")) =
           DescendCalls(b.ds, SubSeq(CallDirs, Len(b.mp) + 1, Len(CallDirs)), TRUE)

(***************************************************************************)
(* C31.  In every reachable state no binding holds the nil DataSource;     *)
(* GetDSsAt never returns a nil error with an empty list of items and      *)
(* never puts the nil DataSource in the list; so GetDSAt's dss[0] is there *)
(* whenever the error is nil: GetDSAt returns the first item GetDSsAt      *)
(* found, and never the nil DataSource with a nil error.                   *)
(***************************************************************************)
NoNilIn(items) == \A i \in 1..Len(items) : items[i] # NilDS

C31_NoAbsentItemWithoutError ==
    /\ \A i \in 1..Len(RView) : RView[i].ds # NilDS
    /\ \A i \in 1..Len(WView) : WView[i].ds # NilDS
    /\ call.op = "GetDSsAt"
       => /\ call.err = Nil => call.dss # <<>>
          /\ NoNilIn(call.dss)
    /\ (call.op = "GetDSAt" /\ call.err = Nil)
       => /\ call.rtn # NilDS
          /\ Contributions(HalfOf(call.flag), CallDirs, call.create) # <<>>
          /\ call.rtn = Contributions(HalfOf(call.flag), CallDirs, call.create)[1]

\* GetDSAt on two bindings that cover the path: the walk of the first ends at
\* a missing child, the item returned is the one the second gives
C31_Witness ==
    /\ call.op = "GetDSAt"
    /\ call.err = Nil
    /\ CallDirs # <<>>
    /\ Len(HalfOf(call.flag)) = 2
    /\ IsPrefix(HalfOf(call.flag)[1].mp, CallDirs)
    /\ Contribution(HalfOf(call.flag)[1], CallDirs, call.create) = NilDS
    /\ call.rtn = Contribution(HalfOf(call.flag)[2], CallDirs, call.create)
    /\ call.rtn # NilDS

=============================================================================
